---- MODULE Spec2Model ----
(***************************************************************************)
(* The two WebGL sample scripts of learning-webgl:                         *)
(*   "flat"  : public/draw-2d-square/index.js   (white quad)               *)
(*   "color" : the multi-colour variant          (per-vertex colours)      *)
(* Each script is a straight line of statements run once at page load.     *)
(* The state is the script's variables, the console, the sequence of       *)
(* graphics calls it issued and the part of the WebGL context state those  *)
(* calls change.  The host decides: whether a context exists, whether each *)
(* shader compiles, whether the program links, the attribute locations,    *)
(* the canvas size, and whether its bindings reject a null object argument *)
(* with a TypeError (current WebGL IDL) or report INVALID_VALUE (the older *)
(* nullable IDL).                                                          *)
(***************************************************************************)
EXTENDS Integers, Sequences, FiniteSets, TLC

VARIABLES
    variant,          \* which script runs: "flat" or "color"
    strictBindings,   \* host: null for a non-nullable WebGL object throws TypeError
    canvasSize,       \* host: <<clientWidth, clientHeight>> of #glCanvas
    pc,               \* the statement the script is at; "done" or "faulted" at the end
    gl,               \* const gl: "undefined" | "null" | "context"
    fault,            \* the unhandled exception that ended the script, if any
    errors,           \* console.error messages, in order
    calls,            \* graphics calls issued, in order
    vertexShader,     \* initShaderProgram's const vertexShader
    fragmentShader,   \* initShaderProgram's const fragmentShader
    createdProgram,   \* initShaderProgram's const shaderProgram (gl.createProgram())
    shaderProgram,    \* top-level const shaderProgram: "undefined" | "null" | "program"
    programInfo,      \* top-level const programInfo, field by field as it is built
    buffers,          \* initBuffer's return value, field by field as it is built
    projectionMatrix, \* drawScene's const projectionMatrix
    modelViewMatrix,  \* drawScene's const modelViewMatrix
    dev               \* the WebGL context state the script's calls change

vars == <<variant, strictBindings, canvasSize, pc, gl, fault, errors, calls,
          vertexShader, fragmentShader, createdProgram, shaderProgram,
          programInfo, buffers, projectionMatrix, modelViewMatrix, dev>>

hostVars == <<variant, strictBindings, canvasSize>>

shaderVars == <<vertexShader, fragmentShader, createdProgram, shaderProgram>>

sceneVars == <<programInfo, buffers, projectionMatrix, modelViewMatrix>>

(***************************************************************************)
(* Helpers                                                                 *)
(***************************************************************************)
Abs(x) == IF x < 0 THEN -x ELSE x

RECURSIVE Pow2(_)
Pow2(n) == IF n = 0 THEN 1 ELSE 2 * Pow2(n - 1)

RECURSIVE Float32Exp(_, _)
\* the power of two by which an integer of magnitude a exceeds 24 significant bits
Float32Exp(a, e) == IF a < Pow2(24 + e) THEN e ELSE Float32Exp(a, e + 1)

\* Number -> float32 for integer-valued numbers: round to 24 significant bits,
\* ties to even
ToFloat32(x) ==
    LET a    == Abs(x)
        step == Pow2(Float32Exp(a, 0))
        q    == a \div step
        r    == a % step
        up   == (2 * r > step) \/ (2 * r = step /\ q % 2 = 1)
        m    == (IF up THEN q + 1 ELSE q) * step
    IN  IF x < 0 THEN -m ELSE m

\* new Float32Array(array)
Float32Array(a) == [i \in DOMAIN a |-> ToFloat32(a[i])]

\* element i of a JavaScript array, counted from 0
At(a, i) == a[i + 1]

(***************************************************************************)
(* Literals of the scripts                                                 *)
(***************************************************************************)
Variants == {"flat", "color"}

\* canvas client sizes the host page may give (the HTML default and a 4:3 canvas)
CanvasSizes == {<<300, 150>>, <<640, 480>>}

positions == <<-1, -1,
               -1,  1,
                1, -1,
                1,  1>>

colors == <<1, 1, 1, 1,
            1, 0, 0, 1,
            0, 1, 0, 1,
            0, 0, 1, 1>>

C8_MutantTranslation == <<0, 0, 6>>

\* the vec3 handed to mat4.translate
TranslationVector == <<0, 0, -6>>

C9_MutantPositionLayout ==
    [numComponents |-> 3, type |-> "FLOAT", normalize |-> FALSE, stride |-> 0, offset |-> 0]

PositionLayout ==
    [numComponents |-> 2, type |-> "FLOAT", normalize |-> FALSE, stride |-> 0, offset |-> 0]

ColorLayout ==
    [numComponents |-> 4, type |-> "FLOAT", normalize |-> FALSE, stride |-> 0, offset |-> 0]

C3_MutantDrawArguments == <<"TRIANGLES", 0, 4>>

\* gl.drawArrays(gl.TRIANGLE_STRIP, offset, vertexCount)
DrawArguments == <<"TRIANGLE_STRIP", 0, 4>>

(***************************************************************************)
(* glMatrix.mat4 (the matrix library the page loads)                       *)
(***************************************************************************)
\* mat4.create(): the 4x4 identity, column-major
mat4Create == [i \in 1..16 |-> IF (i - 1) % 5 = 0 THEN 1 ELSE 0]

\* mat4.translate(out, a, v) with out === a
mat4Translate(a, v) ==
    LET x == v[1]
        y == v[2]
        z == v[3]
    IN  [i \in 1..16 |->
            IF i \in 13..16
            THEN At(a, i - 13) * x + At(a, i - 9) * y + At(a, i - 5) * z + At(a, i - 1)
            ELSE a[i]]

\* mat4.perspective(out, fovy, aspect, near, far), kept by its arguments
\* (fovy as a fraction of pi, aspect and near as fractions)
mat4Perspective(fovy, aspect, near, far) ==
    [op |-> "perspective", fovy |-> fovy, aspect |-> aspect, near |-> near, far |-> far]

(***************************************************************************)
(* The order of the statements                                             *)
(***************************************************************************)
C7_MutantDrawSceneColor ==
    <<"clearScene", "computeMatrices", "useProgram", "bindPositionAttribute",
      "bindColorAttribute", "uploadProjection", "uploadModelView", "drawArrays">>

DrawSceneFlat ==
    <<"clearScene", "computeMatrices", "bindPositionAttribute",
      "useProgram", "uploadProjection", "uploadModelView", "drawArrays">>

DrawSceneColor ==
    <<"clearScene", "computeMatrices", "bindPositionAttribute", "bindColorAttribute",
      "useProgram", "uploadProjection", "uploadModelView", "drawArrays">>

InitShaderProgramBody ==
    <<"loadVertexShader", "loadFragmentShader", "createProgram",
      "attachVertexShader", "attachFragmentShader", "linkProgram">>

TopLevelFlat ==
    <<"getContext", "checkContext">> \o InitShaderProgramBody \o
    <<"lookupVertexPosition", "lookupProjectionMatrix", "lookupModelViewMatrix",
      "initPositionBuffer">> \o DrawSceneFlat

TopLevelColor ==
    <<"getContext", "checkContext">> \o InitShaderProgramBody \o
    <<"lookupVertexPosition", "lookupVertexColor", "lookupProjectionMatrix",
      "lookupModelViewMatrix", "initPositionBuffer", "initColorBuffer">> \o DrawSceneColor

Script(v) == IF v = "flat" THEN TopLevelFlat ELSE TopLevelColor

\* the statement that follows step in the running script
After(step) ==
    LET s == Script(variant)
        i == CHOOSE k \in 1..Len(s) : s[k] = step
    IN  IF i = Len(s) THEN "done" ELSE s[i + 1]

(***************************************************************************)
(* Records of calls and faults                                             *)
(***************************************************************************)
\* a graphics call made from function `in`, with the ARRAY_BUFFER binding it found
\* and how the host answered: "ok", a GL error, or "TypeError"
CallAt(in, fn, args, bound, result) ==
    [in |-> in, fn |-> fn, args |-> args, bound |-> bound, result |-> result]

Call(in, fn, args, result) == CallAt(in, fn, args, dev.arrayBuffer, result)

NoFault == [kind |-> "none", at |-> "none"]

\* an uncaught exception ends the script
Throw(step) ==
    /\ pc' = "faulted"
    /\ fault' = [kind |-> "TypeError", at |-> step]

\* the statement completes and the next one runs
Continue(step) ==
    /\ pc' = After(step)
    /\ fault' = fault

\* a host call that answered `result`: a TypeError is not caught anywhere
Outcome(step, result) == IF result = "TypeError" THEN Throw(step) ELSE Continue(step)

\* how the host answers a null passed where the IDL wants a WebGL object
NullArgument == IF strictBindings THEN "TypeError" ELSE "INVALID_VALUE"

Buffers == {"positionBuffer", "colorBuffer"}

Init ==
    /\ variant \in Variants
    /\ strictBindings \in BOOLEAN
    /\ canvasSize \in CanvasSizes
    /\ pc = "getContext"
    /\ gl = "undefined"
    /\ fault = NoFault
    /\ errors = <<>>
    /\ calls = <<>>
    /\ vertexShader = "undefined"
    /\ fragmentShader = "undefined"
    /\ createdProgram = "undefined"
    /\ shaderProgram = "undefined"
    /\ programInfo = <<>>
    /\ buffers = <<>>
    /\ projectionMatrix = <<>>
    /\ modelViewMatrix = <<>>
    /\ dev = [compileStatus  |-> [s \in {"vertexShader", "fragmentShader"} |-> "none"],
              attached       |-> {},
              linkStatus     |-> FALSE,
              arrayBuffer    |-> "null",
              store          |-> [b \in Buffers |-> <<>>],
              uploads        |-> [b \in Buffers |-> 0],
              attribs        |-> <<>>,
              enabled        |-> {},
              currentProgram |-> "null",
              uniforms       |-> <<>>,
              clearColor     |-> <<0, 0, 0, 0>>,
              clearDepth     |-> 1,
              depthTest      |-> FALSE,
              depthFunc      |-> "LESS",
              cleared        |-> FALSE,
              drawn          |-> 0]

(***************************************************************************)
(* Top of the script: context acquisition                                  *)
(***************************************************************************)
\* const gl = canvas.getContext("webgl");
GetContext ==
    /\ pc = "getContext"
    /\ \E g \in {"context", "null"} : gl' = g
    /\ Continue("getContext")
    /\ UNCHANGED <<hostVars, errors, calls, shaderVars, sceneVars, dev>>

C6_MutantCheckContext ==
    /\ pc = "checkContext"
    /\ errors' = IF gl = "null" THEN Append(errors, "context") ELSE errors
    /\ pc' = IF gl = "null" THEN "done" ELSE After("checkContext")
    /\ UNCHANGED <<hostVars, gl, fault, calls, shaderVars, sceneVars, dev>>

\* if (!gl) { console.error(...) }   -- no return
CheckContext ==
    /\ pc = "checkContext"
    /\ errors' = IF gl = "null" THEN Append(errors, "context") ELSE errors
    /\ Continue("checkContext")
    /\ UNCHANGED <<hostVars, gl, calls, shaderVars, sceneVars, dev>>

(***************************************************************************)
(* initShaderProgram and loadShader                                        *)
(***************************************************************************)
\* loadShader(gl, type, source) on a context: createShader, shaderSource,
\* compileShader, then the COMPILE_STATUS test; `ok` is the driver's verdict
LoadShaderCalls(type, shader, ok) ==
    <<Call("loadShader", "createShader", <<type>>, "ok"),
      Call("loadShader", "shaderSource", <<shader, type>>, "ok"),
      Call("loadShader", "compileShader", <<shader>>, "ok"),
      Call("loadShader", "getShaderParameter", <<shader, "COMPILE_STATUS">>, "ok")>>
    \o (IF ok THEN <<>>
        ELSE <<Call("loadShader", "getShaderInfoLog", <<shader>>, "ok")>>)

LoadShader(type, shader, ok) ==
    /\ calls' = calls \o LoadShaderCalls(type, shader, ok)
    /\ dev' = [dev EXCEPT !.compileStatus[shader] = IF ok THEN "ok" ELSE "failed"]
    /\ errors' = IF ok THEN errors ELSE Append(errors, "compile")

\* what loadShader returns
LoadShaderResult(shader, ok) == IF ok THEN shader ELSE "null"

\* const vertexShader = loadShader(gl, gl.VERTEX_SHADER, vsSource);
\* with gl null, reading gl.VERTEX_SHADER throws
LoadVertexShader ==
    /\ pc = "loadVertexShader"
    /\ IF gl = "null"
       THEN /\ Throw("loadVertexShader")
            /\ UNCHANGED <<errors, calls, dev, vertexShader>>
       ELSE \E ok \in BOOLEAN :
            /\ LoadShader("VERTEX_SHADER", "vertexShader", ok)
            /\ vertexShader' = LoadShaderResult("vertexShader", ok)
            /\ Continue("loadVertexShader")
    /\ UNCHANGED <<hostVars, gl, fragmentShader, createdProgram, shaderProgram, sceneVars>>

\* const fragmentShader = loadShader(gl, gl.FRAGMENT_SHADER, fsSource);
LoadFragmentShader ==
    /\ pc = "loadFragmentShader"
    /\ \E ok \in BOOLEAN :
        /\ LoadShader("FRAGMENT_SHADER", "fragmentShader", ok)
        /\ fragmentShader' = LoadShaderResult("fragmentShader", ok)
    /\ Continue("loadFragmentShader")
    /\ UNCHANGED <<hostVars, gl, vertexShader, createdProgram, shaderProgram, sceneVars>>

\* const shaderProgram = gl.createProgram();
CreateProgram ==
    /\ pc = "createProgram"
    /\ createdProgram' = "program"
    /\ calls' = Append(calls, Call("initShaderProgram", "createProgram", <<>>, "ok"))
    /\ Continue("createProgram")
    /\ UNCHANGED <<hostVars, gl, errors, vertexShader, fragmentShader, shaderProgram,
                   sceneVars, dev>>

\* gl.attachShader(shaderProgram, shader): the shader is whatever loadShader returned
AttachShader(step, shader) ==
    LET result == IF shader = "null" THEN NullArgument ELSE "ok"
    IN  /\ calls' = Append(calls, Call("initShaderProgram", "attachShader",
                                       <<createdProgram, shader>>, result))
        /\ dev' = IF result = "ok"
                  THEN [dev EXCEPT !.attached = @ \cup {shader}]
                  ELSE dev
        /\ Outcome(step, result)

\* gl.attachShader(shaderProgram, vertexShader);
AttachVertexShader ==
    /\ pc = "attachVertexShader"
    /\ AttachShader("attachVertexShader", vertexShader)
    /\ UNCHANGED <<hostVars, gl, errors, shaderVars, sceneVars>>

\* gl.attachShader(shaderProgram, fragmentShader);
AttachFragmentShader ==
    /\ pc = "attachFragmentShader"
    /\ AttachShader("attachFragmentShader", fragmentShader)
    /\ UNCHANGED <<hostVars, gl, errors, shaderVars, sceneVars>>

\* the link succeeds only with a compiled vertex and a compiled fragment shader
\* attached, and then only if the linker accepts the pair
Linkable ==
    /\ dev.attached = {"vertexShader", "fragmentShader"}
    /\ \A s \in dev.attached : dev.compileStatus[s] = "ok"

\* gl.linkProgram(shaderProgram); the LINK_STATUS test; return null or the program
LinkProgram ==
    /\ pc = "linkProgram"
    /\ \E linkerOk \in BOOLEAN :
        LET status == Linkable /\ linkerOk
        IN  /\ dev' = [dev EXCEPT !.linkStatus = status]
            /\ calls' = calls \o
                 <<Call("initShaderProgram", "linkProgram", <<createdProgram>>, "ok"),
                   Call("initShaderProgram", "getProgramParameter",
                        <<createdProgram, "LINK_STATUS">>, "ok")>> \o
                 (IF status THEN <<>>
                  ELSE <<Call("initShaderProgram", "getProgramInfoLog",
                              <<createdProgram>>, "ok")>>)
            /\ errors' = IF status THEN errors ELSE Append(errors, "link")
            /\ shaderProgram' = IF status THEN createdProgram ELSE "null"
    /\ Continue("linkProgram")
    /\ UNCHANGED <<hostVars, gl, vertexShader, fragmentShader, createdProgram, sceneVars>>

(***************************************************************************)
(* programInfo: the location lookups                                       *)
(***************************************************************************)
\* gl.getAttribLocation(shaderProgram, name) -> [result, value]
GetAttribLocation(loc) ==
    IF shaderProgram = "null"
    THEN [result |-> NullArgument, value |-> -1]
    ELSE [result |-> "ok", value |-> loc]

\* gl.getUniformLocation(shaderProgram, name) -> [result, value]
GetUniformLocation(name) ==
    IF shaderProgram = "null"
    THEN [result |-> NullArgument, value |-> "null"]
    ELSE [result |-> "ok", value |-> name]

\* one property of the programInfo literal: the lookup is made, and unless it
\* throws its value becomes the property
Lookup(step, fn, name, field, got, before) ==
    /\ calls' = Append(calls, Call("programInfo", fn, <<shaderProgram, name>>, got.result))
    /\ programInfo' = IF got.result = "TypeError"
                      THEN programInfo
                      ELSE before @@ (field :> got.value)
    /\ Outcome(step, got.result)
    /\ UNCHANGED <<hostVars, gl, errors, shaderVars, buffers, projectionMatrix,
                   modelViewMatrix, dev>>

\* program: shaderProgram,
\* vertexPosition: gl.getAttribLocation(shaderProgram, 'aVertexPosition')
LookupVertexPosition ==
    /\ pc = "lookupVertexPosition"
    /\ \E loc \in 0..1 :
        Lookup("lookupVertexPosition", "getAttribLocation", "aVertexPosition",
               "vertexPosition", GetAttribLocation(loc), "program" :> shaderProgram)

\* vertexColor: gl.getAttribLocation(shaderProgram, 'aVertexColor')
LookupVertexColor ==
    /\ pc = "lookupVertexColor"
    /\ Lookup("lookupVertexColor", "getAttribLocation", "aVertexColor", "vertexColor",
              GetAttribLocation(1 - programInfo.vertexPosition), programInfo)

\* projectionMatrix: gl.getUniformLocation(shaderProgram, 'uProjectionMatrix')
LookupProjectionMatrix ==
    /\ pc = "lookupProjectionMatrix"
    /\ Lookup("lookupProjectionMatrix", "getUniformLocation", "uProjectionMatrix",
              "projectionMatrix", GetUniformLocation("uProjectionMatrix"), programInfo)

\* modelViewMatrix: gl.getUniformLocation(shaderProgram, 'uModelViewMatrix')
LookupModelViewMatrix ==
    /\ pc = "lookupModelViewMatrix"
    /\ Lookup("lookupModelViewMatrix", "getUniformLocation", "uModelViewMatrix",
              "modelViewMatrix", GetUniformLocation("uModelViewMatrix"), programInfo)

(***************************************************************************)
(* initBuffer                                                              *)
(***************************************************************************)
\* gl.bindBuffer(gl.ARRAY_BUFFER, buffer)
BindBuffer(d, buffer) == [d EXCEPT !.arrayBuffer = buffer]

\* gl.bufferData(gl.ARRAY_BUFFER, data, gl.STATIC_DRAW): writes the bound buffer
BufferData(d, data) ==
    IF d.arrayBuffer = "null"
    THEN d
    ELSE [d EXCEPT !.store[d.arrayBuffer] = data,
                   !.uploads[d.arrayBuffer] = @ + 1]

\* createBuffer, bindBuffer, bufferData of one array
InitOneBuffer(step, buffer, name, array) ==
    LET bound == BindBuffer(dev, buffer)
        data  == Float32Array(array)
    IN  /\ calls' = calls \o
             <<Call("initBuffer", "createBuffer", <<>>, "ok"),
               Call("initBuffer", "bindBuffer", <<"ARRAY_BUFFER", buffer>>, "ok"),
               CallAt("initBuffer", "bufferData", <<"ARRAY_BUFFER", data, "STATIC_DRAW">>,
                      bound.arrayBuffer, "ok")>>
        /\ dev' = BufferData(bound, data)
        /\ buffers' = buffers @@ (name :> buffer)
        /\ Continue(step)
        /\ UNCHANGED <<hostVars, gl, errors, shaderVars, programInfo, projectionMatrix,
                       modelViewMatrix>>

C4_MutantInitPositionBuffer ==
    /\ pc = "initPositionBuffer"
    /\ InitOneBuffer("initPositionBuffer", "positionBuffer", "position",
                     <<-1, -1, 1, -1, -1, 1, 1, 1>>)

\* const positionBuffer = gl.createBuffer(); ... bufferData(positions)
InitPositionBuffer ==
    /\ pc = "initPositionBuffer"
    /\ InitOneBuffer("initPositionBuffer", "positionBuffer", "position", positions)

\* const colorBuffer = gl.createBuffer(); ... bufferData(colors)
InitColorBuffer ==
    /\ pc = "initColorBuffer"
    /\ InitOneBuffer("initColorBuffer", "colorBuffer", "color", colors)

(***************************************************************************)
(* drawScene                                                               *)
(***************************************************************************)
\* clearColor, clearDepth, enable(DEPTH_TEST), depthFunc(LEQUAL), clear
ClearScene ==
    /\ pc = "clearScene"
    /\ calls' = calls \o
         <<Call("drawScene", "clearColor", <<0, 0, 0, 1>>, "ok"),
           Call("drawScene", "clearDepth", <<1>>, "ok"),
           Call("drawScene", "enable", <<"DEPTH_TEST">>, "ok"),
           Call("drawScene", "depthFunc", <<"LEQUAL">>, "ok"),
           Call("drawScene", "clear", <<"COLOR_BUFFER_BIT", "DEPTH_BUFFER_BIT">>, "ok")>>
    /\ dev' = [dev EXCEPT !.clearColor = <<0, 0, 0, 1>>,
                          !.clearDepth = 1,
                          !.depthTest = TRUE,
                          !.depthFunc = "LEQUAL",
                          !.cleared = TRUE]
    /\ Continue("clearScene")
    /\ UNCHANGED <<hostVars, gl, errors, shaderVars, sceneVars>>

\* projectionMatrix = perspective(45 deg, clientWidth / clientHeight, 0.1, 100);
\* modelViewMatrix = translate(identity, [0, 0, -6]); both are Float32Array(16)
ComputeMatrices ==
    /\ pc = "computeMatrices"
    /\ projectionMatrix' = mat4Perspective(<<45, 180>>, canvasSize, <<1, 10>>, 100)
    /\ modelViewMatrix' = Float32Array(mat4Translate(Float32Array(mat4Create),
                                                     TranslationVector))
    /\ Continue("computeMatrices")
    /\ UNCHANGED <<hostVars, gl, errors, calls, shaderVars, programInfo, buffers, dev>>

\* how the context answers an attribute index
AttribIndex(loc) == IF loc < 0 THEN "INVALID_VALUE" ELSE "ok"

\* bindBuffer(ARRAY_BUFFER, buffer); vertexAttribPointer(loc, layout...);
\* enableVertexAttribArray(loc)
BindAttribute(step, buffer, loc, layout) ==
    LET bound == BindBuffer(dev, buffer)
    IN  /\ calls' = calls \o
             <<Call("drawScene", "bindBuffer", <<"ARRAY_BUFFER", buffer>>, "ok"),
               CallAt("drawScene", "vertexAttribPointer",
                      <<loc, layout.numComponents, layout.type, layout.normalize,
                        layout.stride, layout.offset>>,
                      bound.arrayBuffer, AttribIndex(loc)),
               CallAt("drawScene", "enableVertexAttribArray", <<loc>>,
                      bound.arrayBuffer, AttribIndex(loc))>>
        /\ dev' = IF AttribIndex(loc) = "ok"
                  THEN [bound EXCEPT
                          !.attribs = (loc :> [buffer |-> bound.arrayBuffer,
                                               layout |-> layout]) @@ @,
                          !.enabled = @ \cup {loc}]
                  ELSE bound
        /\ Continue(step)
        /\ UNCHANGED <<hostVars, gl, errors, shaderVars, sceneVars>>

\* the position block of drawScene
BindPositionAttribute ==
    /\ pc = "bindPositionAttribute"
    /\ BindAttribute("bindPositionAttribute", buffers.position,
                     programInfo.vertexPosition, PositionLayout)

\* the colour block of drawScene
BindColorAttribute ==
    /\ pc = "bindColorAttribute"
    /\ BindAttribute("bindColorAttribute", buffers.color,
                     programInfo.vertexColor, ColorLayout)

\* gl.useProgram(programInfo.program): null is accepted and unsets the program
UseProgram ==
    /\ pc = "useProgram"
    /\ calls' = Append(calls, Call("drawScene", "useProgram", <<programInfo.program>>, "ok"))
    /\ dev' = [dev EXCEPT !.currentProgram = programInfo.program]
    /\ Continue("useProgram")
    /\ UNCHANGED <<hostVars, gl, errors, shaderVars, sceneVars>>

\* gl.uniformMatrix4fv(location, false, matrix): a null location is ignored
UploadUniform(step, location, matrix) ==
    LET result == IF location = "null" THEN "ok"
                  ELSE IF dev.currentProgram = "null" THEN "INVALID_OPERATION"
                  ELSE "ok"
    IN  /\ calls' = Append(calls, Call("drawScene", "uniformMatrix4fv",
                                       <<location, FALSE, matrix>>, result))
        /\ dev' = IF location # "null" /\ result = "ok"
                  THEN [dev EXCEPT !.uniforms = (location :> matrix) @@ @]
                  ELSE dev
        /\ Continue(step)
        /\ UNCHANGED <<hostVars, gl, errors, shaderVars, sceneVars>>

UploadProjection ==
    /\ pc = "uploadProjection"
    /\ UploadUniform("uploadProjection", programInfo.projectionMatrix, projectionMatrix)

UploadModelView ==
    /\ pc = "uploadModelView"
    /\ UploadUniform("uploadModelView", programInfo.modelViewMatrix, modelViewMatrix)

\* gl.drawArrays(gl.TRIANGLE_STRIP, 0, 4): without a current program nothing is drawn
DrawArrays ==
    /\ pc = "drawArrays"
    /\ LET result == IF dev.currentProgram = "null" THEN "INVALID_OPERATION" ELSE "ok"
       IN  /\ calls' = Append(calls, Call("drawScene", "drawArrays", DrawArguments, result))
           /\ dev' = IF result = "ok" THEN [dev EXCEPT !.drawn = @ + 1] ELSE dev
    /\ Continue("drawArrays")
    /\ UNCHANGED <<hostVars, gl, errors, shaderVars, sceneVars>>

(***************************************************************************)
(* The script                                                              *)
(***************************************************************************)
Next ==
    \/ GetContext
    \/ CheckContext
    \/ LoadVertexShader
    \/ LoadFragmentShader
    \/ CreateProgram
    \/ AttachVertexShader
    \/ AttachFragmentShader
    \/ LinkProgram
    \/ LookupVertexPosition
    \/ LookupVertexColor
    \/ LookupProjectionMatrix
    \/ LookupModelViewMatrix
    \/ InitPositionBuffer
    \/ InitColorBuffer
    \/ ClearScene
    \/ ComputeMatrices
    \/ BindPositionAttribute
    \/ BindColorAttribute
    \/ UseProgram
    \/ UploadProjection
    \/ UploadModelView
    \/ DrawArrays

Spec == Init /\ [][Next]_vars

(***************************************************************************)
(* Vocabulary of the properties                                            *)
(***************************************************************************)
\* the script has ended, by running off its end or by an uncaught exception
Finished == pc \in {"done", "faulted"}

\* the places in the call sequence of the calls of one function
Calls(fn) == {i \in DOMAIN calls : calls[i].fn = fn}

Range(f) == {f[i] : i \in DOMAIN f}

VertexCompileFailed == dev.compileStatus["vertexShader"] = "failed"

FragmentCompileFailed == dev.compileStatus["fragmentShader"] = "failed"

\* both shaders compiled and the link was attempted and failed
LinkFailed ==
    /\ dev.compileStatus["vertexShader"] = "ok"
    /\ dev.compileStatus["fragmentShader"] = "ok"
    /\ Calls("linkProgram") # {}
    /\ ~dev.linkStatus

\* initShaderProgram returned (its value is in the top-level shaderProgram)
Returned == shaderProgram # "undefined"

\* initShaderProgram was left by an exception
Raised == fault.at \in Range(InitShaderProgramBody)

\* a null program handle was the first argument of some call of fn
PassedNull(fn) == \E i \in Calls(fn) : calls[i].args[1] = "null"

\* drawScene was entered
ReachedDrawScene == \E i \in DOMAIN calls : calls[i].in = "drawScene"

\* C1: in the three failure cases (vertex compile, fragment compile, link)
\* initShaderProgram returns null without raising, and it returns a program only
\* when both compiles and the link succeeded.
C1_InitShaderProgramReturnsNull ==
    /\ ((Returned \/ Raised) /\ (VertexCompileFailed \/ FragmentCompileFailed \/ LinkFailed))
          => (Returned /\ ~Raised /\ shaderProgram = "null")
    /\ (Returned /\ shaderProgram # "null")
          => /\ dev.compileStatus["vertexShader"] = "ok"
             /\ dev.compileStatus["fragmentShader"] = "ok"
             /\ dev.linkStatus

\* C2: a run in which a shader compile or the link failed ends with exactly one
\* console.error message and no unhandled fault.
C2_OneErrorNoFault ==
    (Finished /\ (VertexCompileFailed \/ FragmentCompileFailed \/ LinkFailed))
        => (Len(errors) = 1 /\ fault = NoFault)

\* C3: a run that reaches drawScene calls drawArrays exactly once, with
\* (TRIANGLE_STRIP, 0, 4), whatever failed before, and drawArrays is the last
\* graphics call the script makes.
C3_SingleDrawCall ==
    /\ Cardinality(Calls("drawArrays")) <= 1
    /\ \A i \in Calls("drawArrays") :
          /\ calls[i].args = <<"TRIANGLE_STRIP", 0, 4>>
          /\ i = Len(calls)
          /\ pc = "done"
    /\ (Finished /\ ReachedDrawScene) => Cardinality(Calls("drawArrays")) = 1

\* C3's case: drawScene ran to its draw call although no program was linked
C3_Witness ==
    /\ pc = "done"
    /\ shaderProgram = "null"
    /\ Calls("drawArrays") # {}

\* the bufferData calls that wrote buffer b: made while b was bound
UploadsTo(b) == {i \in Calls("bufferData") : calls[i].bound = b}

\* C4: at the draw call the position buffer holds [-1,-1,-1,1,1,-1,1,1] and, in
\* the colour variant, the colour buffer holds [1,1,1,1, 1,0,0,1, 0,1,0,1,
\* 0,0,1,1]; each was written by exactly one bufferData, made while it was the
\* bound buffer, and no buffer is ever written twice.
C4_BufferContents ==
    /\ \A b \in Buffers : dev.uploads[b] <= 1 /\ Cardinality(UploadsTo(b)) = dev.uploads[b]
    /\ (pc = "drawArrays" \/ Calls("drawArrays") # {}) =>
          /\ dev.store[buffers.position] = <<-1, -1, -1, 1, 1, -1, 1, 1>>
          /\ dev.uploads[buffers.position] = 1
          /\ \A i \in UploadsTo(buffers.position) :
                calls[i].args = <<"ARRAY_BUFFER", <<-1, -1, -1, 1, 1, -1, 1, 1>>, "STATIC_DRAW">>
          /\ variant = "color" =>
                /\ buffers.color # buffers.position
                /\ dev.store[buffers.color] =
                      <<1, 1, 1, 1, 1, 0, 0, 1, 0, 1, 0, 1, 0, 0, 1, 1>>
                /\ dev.uploads[buffers.color] = 1
                /\ \A i \in UploadsTo(buffers.color) :
                      calls[i].args = <<"ARRAY_BUFFER",
                                        <<1, 1, 1, 1, 1, 0, 0, 1, 0, 1, 0, 1, 0, 0, 1, 1>>,
                                        "STATIC_DRAW">>
          /\ variant = "flat" => DOMAIN buffers = {"position"}

\* C4's case: the colour variant drew with both buffers uploaded
C4_Witness ==
    /\ variant = "color"
    /\ dev.drawn = 1
    /\ dev.uploads = [b \in Buffers |-> 1]

\* C5: every location lookup is made once and only on a successfully linked
\* program, never on the null that initShaderProgram returned.
C5_LookupsOnlyAfterLink ==
    \A i \in Calls("getAttribLocation") \cup Calls("getUniformLocation") :
        /\ calls[i].args[1] # "null"
        /\ dev.linkStatus
        /\ \A j \in Calls(calls[i].fn) : calls[j].args = calls[i].args => j = i

AttributeCall(i) ==
    /\ calls[i].in = "drawScene"
    /\ calls[i].fn \in {"bindBuffer", "vertexAttribPointer", "enableVertexAttribArray"}

\* the buffers drawScene binds attributes from
AttributeBuffers == IF variant = "color" THEN {"positionBuffer", "colorBuffer"}
                    ELSE {"positionBuffer"}

\* before place u: buffer b bound, then described, then enabled
BoundDescribedEnabled(b, u) ==
    \E i, j, k \in DOMAIN calls :
        /\ i < j /\ j < k /\ k < u
        /\ calls[i].in = "drawScene" /\ calls[i].fn = "bindBuffer"
        /\ calls[i].args = <<"ARRAY_BUFFER", b>>
        /\ calls[j].fn = "vertexAttribPointer" /\ calls[j].bound = b
        /\ calls[k].fn = "enableVertexAttribArray" /\ calls[k].bound = b
        /\ calls[k].args[1] = calls[j].args[1]

\* C7: in drawScene the clear (after clearColor(0,0,0,1), clearDepth(1),
\* enable(DEPTH_TEST), depthFunc(LEQUAL)) comes before every attribute call;
\* every attribute is bound, described and enabled before useProgram;
\* useProgram comes before both uniformMatrix4fv uploads, each with transpose
\* false; both uploads come before the one drawArrays.
C7_DrawSceneOrder ==
    /\ \A c \in Calls("clear") :
          /\ c > 4
          /\ calls[c - 4].fn = "clearColor" /\ calls[c - 4].args = <<0, 0, 0, 1>>
          /\ calls[c - 3].fn = "clearDepth" /\ calls[c - 3].args = <<1>>
          /\ calls[c - 2].fn = "enable" /\ calls[c - 2].args = <<"DEPTH_TEST">>
          /\ calls[c - 1].fn = "depthFunc" /\ calls[c - 1].args = <<"LEQUAL">>
          /\ calls[c].args = <<"COLOR_BUFFER_BIT", "DEPTH_BUFFER_BIT">>
    /\ \A i \in DOMAIN calls :
          AttributeCall(i) => \E c \in Calls("clear") : c < i
    /\ \A u \in Calls("useProgram") :
          /\ \A b \in AttributeBuffers : BoundDescribedEnabled(b, u)
          /\ \A i \in DOMAIN calls : AttributeCall(i) => i < u
    /\ \A m \in Calls("uniformMatrix4fv") :
          /\ calls[m].args[2] = FALSE
          /\ \E u \in Calls("useProgram") : u < m
    /\ Cardinality(Calls("drawArrays")) <= 1
    /\ \A d \in Calls("drawArrays") :
          /\ Cardinality(Calls("uniformMatrix4fv")) = 2
          /\ \A m \in Calls("uniformMatrix4fv") : m < d
          /\ \E m \in Calls("uniformMatrix4fv") :
                calls[m].args[1] = programInfo.projectionMatrix
          /\ \E m \in Calls("uniformMatrix4fv") :
                calls[m].args[1] = programInfo.modelViewMatrix

\* C7's case: the colour variant ran drawScene to the end with both attributes
C7_Witness ==
    /\ pc = "done"
    /\ variant = "color"
    /\ Calls("drawArrays") # {}
    /\ Cardinality(Calls("vertexAttribPointer")) = 2

\* the identity translated by (0, 0, -6), column-major
TranslatedIdentity(m) ==
    /\ Len(m) = 16
    /\ At(m, 12) = 0 /\ At(m, 13) = 0 /\ At(m, 14) = -6
    /\ \A i \in {0, 5, 10, 15} : At(m, i) = 1
    /\ \A i \in (0..15) \ {0, 5, 10, 15, 12, 13, 14} : At(m, i) = 0

C9_AttributeLayout ==
    /\ \A p \in Calls("vertexAttribPointer") :
          LET c == calls[p]
          IN  /\ \/ /\ c.bound = buffers.position
                    /\ c.args = <<programInfo.vertexPosition, 2, "FLOAT", FALSE, 0, 0>>
                    /\ Len(dev.store[c.bound]) = 8
                 \/ /\ variant = "color"
                    /\ c.bound = buffers.color
                    /\ c.args = <<programInfo.vertexColor, 4, "FLOAT", FALSE, 0, 0>>
                    /\ Len(dev.store[c.bound]) = 16
              /\ c.args[2] * 4 = Len(dev.store[c.bound])
    /\ \A d \in Calls("drawArrays") :
          /\ \A b \in AttributeBuffers :
                \E p \in Calls("vertexAttribPointer") :
                    /\ p < d
                    /\ calls[p].bound = b
                    /\ calls[p].args[2] * calls[d].args[3] = Len(dev.store[b])
          /\ Cardinality(Calls("vertexAttribPointer")) = Cardinality(AttributeBuffers)
          /\ \A loc \in DOMAIN dev.attribs :
                dev.attribs[loc].layout.numComponents * calls[d].args[3]
                    = Len(dev.store[dev.attribs[loc].buffer])

\* C9's case: both attributes of the colour variant were described and drawn
C9_Witness ==
    /\ variant = "color"
    /\ Cardinality(DOMAIN dev.attribs) = 2
    /\ dev.drawn = 1

\* C10: every run goes compile (vertex, then fragment), link, buffer uploads,
\* render, each phase exactly once and in that order.
C10_LinearPhases ==
    Finished =>
        /\ Cardinality(Calls("compileShader")) = 2
        /\ \A i, j \in Calls("compileShader") :
              (calls[i].args = <<"vertexShader">> /\ calls[j].args = <<"fragmentShader">>)
                  => i < j
        /\ Cardinality(Calls("linkProgram")) = 1
        /\ \A i \in Calls("compileShader") : \A l \in Calls("linkProgram") : i < l
        /\ Cardinality(Calls("bufferData")) = Cardinality(AttributeBuffers)
        /\ \A b \in Calls("bufferData") :
              /\ \A l \in Calls("linkProgram") : l < b
              /\ \A i \in DOMAIN calls : calls[i].in = "drawScene" => b < i
        /\ Cardinality(Calls("drawArrays")) = 1

====
